---- MODULE Spec2Model ----
(***************************************************************************)
(* Path-containment guard (ensure_safe_path) and the file commands of      *)
(* src-tauri/src/lib.rs, over a small POSIX filesystem with directories,   *)
(* regular files and symbolic links.                                       *)
(*                                                                         *)
(* A path string is kept as its split at the separator '/': a non-empty    *)
(* sequence of segments, each segment a sequence of characters.            *)
(*   ""       = << <<>> >>            "/"      = << <<>>, <<>> >>          *)
(*   "a/b"    = << A, B >>            "/w/a"   = << <<>>, W, A >>          *)
(*   "a/"     = << A, <<>> >>         "a/./b"  = << A, CUR, B >>           *)
(* A location of the filesystem is the sequence of entry names from the    *)
(* filesystem root (<<>> is the root directory itself).                    *)
(***************************************************************************)
EXTENDS Integers, Sequences, FiniteSets, TLC

VARIABLES
    fs,           \* the filesystem
    cwd,          \* the working directory of the process (std::env::current_dir)
    lastOp,       \* the command served last
    lastVerdict,  \* what ensure_safe_path answered inside it
    lastResult,   \* what the command returned
    joinArg,      \* guard on its own: the segments handed to join_path
    guardArg,     \* guard on its own: the argument of ensure_safe_path
    guardRet      \* guard on its own: the value ensure_safe_path returned

vars == <<fs, cwd, lastOp, lastVerdict, lastResult, joinArg, guardArg, guardRet>>

-----------------------------------------------------------------------------
(* Segments and names *)

EMPTY == <<>>
CUR == <<".">>
PAR == <<".", ".">>
W == <<"w">>
W2 == <<"w", "2">>
E == <<"e">>
A == <<"a">>
L == <<"l">>
N == <<"n">>
S == <<"s">>

(* bounds *)
\* segments of a relative path string handed to the guard
MaxSegs == 3
\* segments after the working directory in an absolute path string
MaxAbsSegs == 3
\* segments after a directory outside the working directory
MaxOutSegs == 2
\* segments of a path string handed to a command
MaxOpSegs == 2
\* parts handed to join_path
MaxParts == 3
\* entries of the filesystem
MaxNodes == 6
\* symbolic links followed in one resolution before ELOOP
MaxLinkHops == 3

-----------------------------------------------------------------------------
(* std::path *)

RootStr == <<EMPTY, EMPTY>>
EmptyStr == <<EMPTY>>

is_absolute(p) ==
    Len(p) >= 2 /\ p[1] = EMPTY

\* whether segment i of p is what std::path::Components yields as Normal,
\* ParentDir or CurDir: "." is a component only as the first segment of a
\* relative path, repeated and trailing separators yield nothing
IsComp(p, i) ==
    /\ p[i] # EMPTY
    /\ (p[i] = CUR => (i = 1))

RECURSIVE CompsFrom(_, _)
CompsFrom(p, i) ==
    IF i > Len(p) THEN <<>>
    ELSE IF IsComp(p, i) THEN <<p[i]>> \o CompsFrom(p, i + 1)
    ELSE CompsFrom(p, i + 1)

\* the components after the RootDir component
components(p) ==
    CompsFrom(p, 1)

\* the index of the last component at or before segment i, 0 when none
RECURSIVE LastComp(_, _)
LastComp(p, i) ==
    IF i = 0 THEN 0
    ELSE IF IsComp(p, i) THEN i
    ELSE LastComp(p, i - 1)

NoPath == [some |-> FALSE, path |-> <<>>]

UpTo(p, prev) ==
    IF prev = 0
    THEN [some |-> TRUE, path |-> IF is_absolute(p) THEN RootStr ELSE EmptyStr]
    ELSE [some |-> TRUE, path |-> SubSeq(p, 1, prev)]

ParentAt(p, last) ==
    IF last = 0 THEN NoPath
    ELSE UpTo(p, LastComp(p, last - 1))

\* Path::parent: the path without its last component, None when there is none
parent(p) ==
    ParentAt(p, LastComp(p, Len(p)))

IsPrefixSeq(a, b) ==
    Len(a) <= Len(b) /\ SubSeq(b, 1, Len(a)) = a

\* the path as text, separators included
RECURSIVE Flat(_)
Flat(p) ==
    IF Len(p) = 1 THEN p[1]
    ELSE p[1] \o <<"/">> \o Flat(Tail(p))

\* mutant: prefix of the text instead of prefix of the components
starts_with_text(p, base) ==
    IsPrefixSeq(Flat(base), Flat(p))

\* mutant: only what lies strictly below base
starts_with_strict(p, base) ==
    /\ is_absolute(p) = is_absolute(base)
    /\ IsPrefixSeq(components(base), components(p))
    /\ components(base) # components(p)

starts_with(p, base) ==
    /\ is_absolute(p) = is_absolute(base)
    /\ IsPrefixSeq(components(base), components(p))

StripAt(cp, cb) ==
    IF IsPrefixSeq(cb, cp)
    THEN [some |-> TRUE,
          path |-> IF Len(cp) = Len(cb) THEN EmptyStr ELSE SubSeq(cp, Len(cb) + 1, Len(cp))]
    ELSE NoPath

strip_prefix(p, base) ==
    IF is_absolute(p) = is_absolute(base)
    THEN StripAt(components(p), components(base))
    ELSE NoPath

\* PathBuf::push
push(buf, p) ==
    IF is_absolute(p) THEN p
    ELSE IF buf[Len(buf)] = EMPTY THEN SubSeq(buf, 1, Len(buf) - 1) \o p
    ELSE buf \o p

-----------------------------------------------------------------------------
(* The filesystem: a function from the locations that exist to their node *)

DirNode == [kind |-> "dir", val |-> <<>>]
FileNode(c) == [kind |-> "file", val |-> c]
LinkNode(t) == [kind |-> "link", val |-> t]

KindAt(f, loc) ==
    IF loc = <<>> THEN "dir"
    ELSE IF loc \in DOMAIN f THEN f[loc].kind
    ELSE "none"

UpLoc(loc) ==
    IF loc = <<>> THEN <<>> ELSE SubSeq(loc, 1, Len(loc) - 1)

LocStr(loc) ==
    IF loc = <<>> THEN RootStr ELSE <<EMPTY>> \o loc

\* path_resolution(7): walk the raw segments from the directory at `at`.
\* Anything after a non-directory is ENOTDIR, a missing name is ENOENT, a
\* symbolic link is replaced by its target (the last one only when `follow`
\* or when a separator follows it), more than MaxLinkHops links is ELOOP.
RECURSIVE Walk(_, _, _, _, _)
Walk(f, at, segs, follow, hops) ==
    IF segs = <<>> THEN [st |-> "found", loc |-> at, name |-> <<>>, rest |-> <<>>]
    ELSE IF KindAt(f, at) # "dir" THEN [st |-> "ENOTDIR", loc |-> at, name |-> <<>>, rest |-> <<>>]
    ELSE LET s == Head(segs)
             rest == Tail(segs)
         IN IF s = EMPTY \/ s = CUR THEN Walk(f, at, rest, follow, hops)
            ELSE IF s = PAR THEN Walk(f, UpLoc(at), rest, follow, hops)
            ELSE LET child == Append(at, s) IN
                 IF child \notin DOMAIN f
                 THEN [st |-> "ENOENT", loc |-> at, name |-> s, rest |-> rest]
                 ELSE IF f[child].kind = "link"
                 THEN IF rest = <<>> /\ ~follow
                      THEN [st |-> "found", loc |-> child, name |-> <<>>, rest |-> <<>>]
                      ELSE IF hops = 0
                      THEN [st |-> "ELOOP", loc |-> at, name |-> <<>>, rest |-> <<>>]
                      ELSE LET t == f[child].val IN
                           IF is_absolute(t)
                           THEN Walk(f, <<>>, Tail(t) \o rest, follow, hops - 1)
                           ELSE Walk(f, at, t \o rest, follow, hops - 1)
                 ELSE Walk(f, child, rest, follow, hops)

\* the syscalls of this program are all made on absolute paths
Lookup(f, p, follow) ==
    Walk(f, <<>>, Tail(p), follow, MaxLinkHops)

exists(f, p) ==
    Lookup(f, p, TRUE).st = "found"

IsKind(f, r, k) ==
    r.st = "found" /\ KindAt(f, r.loc) = k

is_dir(f, p) ==
    IsKind(f, Lookup(f, p, TRUE), "dir")

is_file(f, p) ==
    IsKind(f, Lookup(f, p, TRUE), "file")

Canonical(r) ==
    IF r.st = "found" THEN [some |-> TRUE, path |-> LocStr(r.loc)]
    ELSE NoPath

canonicalize(f, p) ==
    Canonical(Lookup(f, p, TRUE))

-----------------------------------------------------------------------------
(* ensure_safe_path *)

ErrOutside == "Access denied: Path is outside working directory"
ErrDotDot == "Access denied: Path contains '..' in non-existing portion"
ErrInvalid == "Invalid path: io error"
ErrPath == "Path error"
ErrIo == "io error"

Approve(p) == [ok |-> TRUE, path |-> p, err |-> ""]
Reject(m) == [ok |-> FALSE, path |-> <<>>, err |-> m]

ResolveTarget(base, path_str) ==
    IF is_absolute(path_str) THEN path_str ELSE push(base, path_str)

UpFrom(p, up) ==
    IF up.some THEN up.path ELSE p

\* the upward walk: the first of p, parent(p), parent(parent(p)), ... to exist
RECURSIVE ExistingAncestor(_, _)
Climb(f, p, up) ==
    IF up.some THEN ExistingAncestor(f, up.path) ELSE p

\* mutant: no upward walk, the target itself is canonicalized
ExistingAncestor_NoWalk(f, p) ==
    p

ExistingAncestor(f, p) ==
    IF exists(f, p) THEN p
    ELSE Climb(f, p, parent(p))

\* mutant: only a leading `..` is looked for
HasParentDir_FirstOnly(cs) ==
    cs # <<>> /\ cs[1] = PAR

HasParentDir(cs) ==
    \E i \in 1..Len(cs) : cs[i] = PAR

CheckSuffix(target, suffix) ==
    IF ~suffix.some THEN Reject(ErrPath)
    ELSE IF HasParentDir(components(suffix.path)) THEN Reject(ErrDotDot)
    ELSE Approve(target)

\* mutant: the suffix is checked before the boundary
CheckAncestor_SuffixFirst(base, target, current, canonical_ancestor) ==
    IF ~canonical_ancestor.some THEN Reject(ErrInvalid)
    ELSE IF ~CheckSuffix(target, strip_prefix(target, current)).ok
    THEN CheckSuffix(target, strip_prefix(target, current))
    ELSE IF ~starts_with(canonical_ancestor.path, base) THEN Reject(ErrOutside)
    ELSE Approve(target)

CheckAncestor(base, target, current, canonical_ancestor) ==
    IF ~canonical_ancestor.some THEN Reject(ErrInvalid)
    ELSE IF ~starts_with(canonical_ancestor.path, base) THEN Reject(ErrOutside)
    ELSE CheckSuffix(target, strip_prefix(target, current))

WalkUp(f, base, target, current) ==
    CheckAncestor(base, target, current, canonicalize(f, current))

FromTarget(f, base, target) ==
    WalkUp(f, base, target, ExistingAncestor(f, target))

GuardIn(f, c0, path_str) ==
    IF ~c0.some THEN Reject(ErrIo)
    ELSE FromTarget(f, c0.path, ResolveTarget(c0.path, path_str))

ensure_safe_path(f, wd, path_str) ==
    GuardIn(f, canonicalize(f, wd), path_str)

-----------------------------------------------------------------------------
(* std::fs calls made by the commands *)

Text == << <<"t">> >>

OkVal(v) == [ok |-> TRUE, val |-> v, err |-> ""]
ErrVal(m) == [ok |-> FALSE, val |-> <<>>, err |-> m]

Without(f, loc) ==
    [x \in (DOMAIN f) \ {loc} |-> f[x]]

FsOk(f) == [ok |-> TRUE, fs |-> f, kind |-> ""]
FsErr(f, k) == [ok |-> FALSE, fs |-> f, kind |-> k]

WriteAt(f, r, c) ==
    IF IsKind(f, r, "file") THEN FsOk([f EXCEPT ![r.loc] = FileNode(c)])
    ELSE IF r.st = "ENOENT" /\ r.rest = <<>>
    THEN FsOk(f @@ (Append(r.loc, r.name) :> FileNode(c)))
    ELSE FsErr(f, "Other")

\* open(O_WRONLY | O_CREAT | O_TRUNC) and write: follows a final symbolic
\* link, also a dangling one, whose target is then created
fs_write(f, p, c) ==
    WriteAt(f, Lookup(f, p, TRUE), c)

RemoveAt(f, r) ==
    IF r.st = "found" /\ KindAt(f, r.loc) \in {"file", "link"}
    THEN FsOk(Without(f, r.loc))
    ELSE FsErr(f, "Other")

\* unlink: removes the entry itself, a final symbolic link is not followed
remove_file(f, p) ==
    RemoveAt(f, Lookup(f, p, FALSE))

MkdirAt(f, r) ==
    IF r.st = "ENOENT" /\ (\A i \in 1..Len(r.rest) : r.rest[i] = EMPTY)
    THEN FsOk(f @@ (Append(r.loc, r.name) :> DirNode))
    ELSE IF r.st = "ENOENT" THEN FsErr(f, "NotFound")
    ELSE FsErr(f, "Other")

\* mkdir(2): a final symbolic link is not followed (EEXIST)
mkdir(f, p) ==
    MkdirAt(f, Lookup(f, p, FALSE))

\* the second mkdir of create_dir_all, or its is_dir fallback
Retry(f, p, m) ==
    IF m.ok THEN m
    ELSE IF is_dir(f, p) THEN FsOk(f)
    ELSE m

AfterParent(up, p) ==
    IF ~up.ok THEN up
    ELSE Retry(up.fs, p, mkdir(up.fs, p))

RECURSIVE create_dir_all(_, _)
FirstMkdir(f, p, m) ==
    IF m.ok THEN m
    ELSE IF m.kind # "NotFound" THEN Retry(f, p, m)
    ELSE IF ~parent(p).some THEN FsErr(f, "Other")
    ELSE AfterParent(create_dir_all(f, parent(p).path), p)

\* std::fs::create_dir_all
create_dir_all(f, p) ==
    IF p = EmptyStr THEN FsOk(f)
    ELSE FirstMkdir(f, p, mkdir(f, p))

ReadAt(f, r) ==
    IF IsKind(f, r, "file") THEN OkVal(f[r.loc].val)
    ELSE ErrVal(ErrIo)

read_to_string(f, p) ==
    ReadAt(f, Lookup(f, p, TRUE))

EntriesAt(f, p, r) ==
    {x[Len(x)] : x \in {y \in DOMAIN f :
        /\ UpLoc(y) = r.loc
        /\ is_file(f, push(p, <<y[Len(y)]>>))}}

\* the names of the entries of the directory at p that are regular files
\* (Path::is_file follows symbolic links)
FileEntries(f, p) ==
    EntriesAt(f, p, Lookup(f, p, TRUE))

Orderings(s) ==
    {q \in [1..Cardinality(s) -> s] : \A i, j \in 1..Cardinality(s) : i # j => q[i] # q[j]}

-----------------------------------------------------------------------------
(* The commands *)

Verdict(g) ==
    IF g.ok THEN "approved" ELSE g.err

Done(op, g, res, f) ==
    /\ fs' = f
    /\ lastOp' = op
    /\ lastVerdict' = g
    /\ lastResult' = res
    /\ UNCHANGED <<cwd, joinArg, guardArg, guardRet>>

\* mutant: the parent directories are created as in write_json
ReadApproved_MakesDirs(g) ==
    IF ~g.ok THEN Done("read_json", Verdict(g), ErrVal(g.err), fs)
    ELSE Done("read_json", Verdict(g), read_to_string(fs, g.path),
              create_dir_all(fs, UpFrom(g.path, parent(g.path))).fs)

ReadApproved(g) ==
    IF ~g.ok THEN Done("read_json", Verdict(g), ErrVal(g.err), fs)
    ELSE Done("read_json", Verdict(g), read_to_string(fs, g.path), fs)

read_json(path) ==
    ReadApproved(ensure_safe_path(fs, cwd, path))

WriteContent(op, g, w) ==
    /\ Cardinality(DOMAIN w.fs) <= MaxNodes
    /\ Done(op, Verdict(g), IF w.ok THEN OkVal(<<>>) ELSE ErrVal(ErrIo), w.fs)

WriteIn(op, g, dirs, content) ==
    IF ~dirs.ok THEN Done(op, Verdict(g), ErrVal(ErrIo), dirs.fs)
    ELSE WriteContent(op, g, fs_write(dirs.fs, g.path, content))

WriteApproved(op, g, content) ==
    IF ~g.ok THEN Done(op, Verdict(g), ErrVal(g.err), fs)
    ELSE WriteIn(op, g,
                 IF parent(g.path).some
                 THEN create_dir_all(fs, parent(g.path).path)
                 ELSE FsOk(fs),
                 content)

\* mutant: the parent directories are created before the guard is asked
write_json_dirs_first(path, content) ==
    IF ensure_safe_path(fs, cwd, path).ok
    THEN WriteApproved("write_json", ensure_safe_path(fs, cwd, path), content)
    ELSE Done("write_json", Verdict(ensure_safe_path(fs, cwd, path)),
              ErrVal(ensure_safe_path(fs, cwd, path).err),
              create_dir_all(fs, UpFrom(ResolveTarget(cwd, path),
                                        parent(ResolveTarget(cwd, path)))).fs)

\* write_json and write_binary_file have the same body
write_json(path, content) ==
    WriteApproved("write_json", ensure_safe_path(fs, cwd, path), content)

write_binary_file(path, content) ==
    WriteApproved("write_binary_file", ensure_safe_path(fs, cwd, path), content)

ListApproved(g) ==
    IF ~g.ok THEN Done("list_files", Verdict(g), ErrVal(g.err), fs)
    ELSE IF ~is_dir(fs, g.path) THEN Done("list_files", Verdict(g), ErrVal(ErrIo), fs)
    ELSE \E files \in Orderings(FileEntries(fs, g.path)) :
            Done("list_files", Verdict(g), OkVal(files), fs)

list_files(path) ==
    ListApproved(ensure_safe_path(fs, cwd, path))

Deleted(g, d) ==
    Done("delete_file", Verdict(g), IF d.ok THEN OkVal(<<>>) ELSE ErrVal(ErrIo), d.fs)

DeleteApproved(g) ==
    IF ~g.ok THEN Done("delete_file", Verdict(g), ErrVal(g.err), fs)
    ELSE Deleted(g, remove_file(fs, g.path))

delete_file(path) ==
    DeleteApproved(ensure_safe_path(fs, cwd, path))

get_cwd ==
    Done("get_cwd", "none", OkVal(cwd), fs)

RECURSIVE PushAll(_, _)
PushAll(buf, ps) ==
    IF ps = <<>> THEN buf
    ELSE PushAll(push(buf, Head(ps)), Tail(ps))

RECURSIVE Reversed(_)
Reversed(ps) ==
    IF ps = <<>> THEN <<>> ELSE Append(Reversed(Tail(ps)), Head(ps))

\* mutant: the segments are pushed last to first
JoinParts_Reversed(ps) ==
    PushAll(EmptyStr, Reversed(ps))

JoinParts(ps) ==
    PushAll(EmptyStr, ps)

join_path(ps) ==
    Done("join_path", "none", OkVal(JoinParts(ps)), fs)

\* the host process changes its working directory (std::env::set_current_dir)
HostChdir(d) ==
    /\ is_dir(fs, d)
    /\ canonicalize(fs, d).path # cwd
    /\ cwd' = canonicalize(fs, d).path
    /\ UNCHANGED <<fs, lastOp, lastVerdict, lastResult, joinArg, guardArg, guardRet>>

-----------------------------------------------------------------------------
(* Inputs *)

SeqsUpTo(s, n) ==
    UNION {[1..k -> s] : k \in 0..n}

Unset == << <<"?">> >>
NotCalled == [ok |-> FALSE, path |-> <<>>, err |-> "not called"]

StartDir == <<EMPTY, W>>

\* entries no command of the model creates or removes
BaseFs ==
    (<<W>> :> DirNode) @@ (<<E>> :> DirNode) @@ (<<W2>> :> DirNode)
    @@ (<<E, S>> :> FileNode(Text))

Absent == [x \in {} |-> DirNode]

\* paths the host hands to the commands: relative strings of up to MaxOpSegs
\* segments, the empty string, and two absolute strings outside the
\* working directory
OpSegs == {PAR, A, N}

OpPaths ==
    (SeqsUpTo(OpSegs, MaxOpSegs) \ {<<>>})
    \cup {EmptyStr, <<EMPTY, E, S>>, <<EMPTY, E, L>>}

OpParts == {<<A>>, <<EMPTY, E>>}

OpPartLists == SeqsUpTo(OpParts, MaxOpSegs)

InitFs ==
    {BaseFs @@ a @@ o :
        a \in {Absent,
               <<W, A>> :> DirNode,
               <<W, A>> :> LinkNode(<<EMPTY, E, N>>)},
        o \in {Absent, <<E, L>> :> LinkNode(<<EMPTY, W, A>>)}}

Init ==
    /\ fs \in InitFs
    /\ cwd = StartDir
    /\ lastOp = "start"
    /\ lastVerdict = "none"
    /\ lastResult = OkVal(<<>>)
    /\ joinArg = <<>>
    /\ guardArg = Unset
    /\ guardRet = NotCalled

Next ==
    \/ \E p \in OpPaths : read_json(p)
    \/ \E p \in OpPaths : write_json(p, Text)
    \/ \E p \in OpPaths : write_binary_file(p, Text)
    \/ \E p \in OpPaths : list_files(p)
    \/ \E p \in OpPaths : delete_file(p)
    \/ get_cwd
    \/ \E ps \in OpPartLists : join_path(ps)

Spec == Init /\ [][Next]_vars

HostDirs == {<<EMPTY, E>>}

NextHost ==
    \/ Next
    \/ \E d \in HostDirs : HostChdir(d)

SpecHost == Init /\ [][NextHost]_vars

-----------------------------------------------------------------------------
(* ensure_safe_path on its own: Init draws a filesystem and a path string,  *)
(* directly or as the segments handed to join_path first                    *)

GuardSegs == {EMPTY, CUR, PAR, A, N}

\* absolute strings start at the working directory, or outside it: at /e, at
\* the link /e/l, at /w2 whose text starts with the text of /w
OutPrefixes == {<<EMPTY, E>>, <<EMPTY, E, L>>, <<EMPTY, W2>>}

Candidates ==
    (SeqsUpTo(GuardSegs, MaxSegs) \ {<<>>})
    \cup {StartDir \o b : b \in SeqsUpTo(GuardSegs, MaxAbsSegs)}
    \cup {p \o b : p \in OutPrefixes, b \in SeqsUpTo(GuardSegs, MaxOutSegs)}

Parts == {<<A>>, <<N>>, <<PAR>>, <<EMPTY, E>>, EmptyStr}

PartLists == SeqsUpTo(Parts, MaxParts)

GuardFs ==
    {BaseFs @@ a @@ n @@ o :
        a \in {Absent,
               <<W, A>> :> DirNode,
               <<W, A>> :> FileNode(Text),
               <<W, A>> :> LinkNode(<<EMPTY, E>>),
               <<W, A>> :> LinkNode(<<EMPTY, E, N>>),
               <<W, A>> :> LinkNode(<<N>>),
               <<W, A>> :> LinkNode(<<EMPTY, W, A>>)},
        n \in {Absent, <<W, N>> :> DirNode},
        o \in {Absent, <<E, L>> :> LinkNode(<<EMPTY, W, N>>)}}

InitGuard ==
    /\ fs \in GuardFs
    /\ cwd = StartDir
    /\ lastOp = "start"
    /\ lastVerdict = "none"
    /\ lastResult = OkVal(<<>>)
    /\ guardArg \in Candidates \cup {Unset}
    /\ joinArg \in IF guardArg = Unset THEN PartLists ELSE {<<>>}
    /\ guardRet = NotCalled

JoinFirst ==
    /\ guardArg = Unset
    /\ lastOp = "start"
    /\ join_path(joinArg)

ValidateJoined ==
    /\ guardArg = Unset
    /\ lastOp = "join_path"
    /\ guardArg' = lastResult.val
    /\ guardRet' = ensure_safe_path(fs, cwd, lastResult.val)
    /\ UNCHANGED <<fs, cwd, lastOp, lastVerdict, lastResult, joinArg>>

ValidateDirect ==
    /\ guardArg # Unset
    /\ guardRet = NotCalled
    /\ guardRet' = ensure_safe_path(fs, cwd, guardArg)
    /\ UNCHANGED <<fs, cwd, lastOp, lastVerdict, lastResult, joinArg, guardArg>>

NextGuard ==
    \/ JoinFirst
    \/ ValidateJoined
    \/ ValidateDirect

SpecGuard == InitGuard /\ [][NextGuard]_vars

-----------------------------------------------------------------------------
(* The vocabulary of the specification, stated on the filesystem            *)

\* Root as a location, and as the canonical path string
RootLoc == Lookup(fs, cwd, TRUE).loc
Root == LocStr(RootLoc)

Inside(loc) == IsPrefixSeq(RootLoc, loc)
StrictlyInside(loc) == Inside(loc) /\ loc # RootLoc

Validated == guardRet # NotCalled

\* Resolved Path of the string under validation
Resolved == IF is_absolute(guardArg) THEN guardArg ELSE push(Root, guardArg)

\* p and all the paths above it
RECURSIVE Chain(_)
Chain(p) ==
    {p} \cup (IF parent(p).some THEN Chain(parent(p).path) ELSE {})

\* Existing Ancestor: the longest prefix of the Resolved Path that exists
Longest(ch) ==
    CHOOSE q \in ch :
        /\ exists(fs, q)
        /\ \A r \in ch : exists(fs, r) => Len(components(r)) <= Len(components(q))

Ancestor == Longest(Chain(Resolved))

\* Canonical Ancestor, as a location
AncestorLoc == Lookup(fs, Ancestor, TRUE).loc

\* Suffix: the components of the Resolved Path beyond the Existing Ancestor
SuffixOf(t, a) ==
    SubSeq(components(t), Len(components(a)) + 1, Len(components(t)))

Suffix == SuffixOf(Resolved, Ancestor)

DotDotInSuffix == \E i \in 1..Len(Suffix) : Suffix[i] = PAR

\* the location a path designates: the canonical ancestor followed by the
\* suffix, with the `..` of the suffix taken lexically
RECURSIVE Normal(_, _)
Normal(loc, cs) ==
    IF cs = <<>> THEN loc
    ELSE IF Head(cs) = PAR THEN Normal(UpLoc(loc), Tail(cs))
    ELSE Normal(Append(loc, Head(cs)), Tail(cs))

Designated == Normal(AncestorLoc, Suffix)

\* the locations whose entry differs between two filesystems
Changed(f, g) ==
    {loc \in DOMAIN f \cup DOMAIN g :
        \/ loc \notin DOMAIN f
        \/ loc \notin DOMAIN g
        \/ f[loc] # g[loc]}

FoundAt(r) == IF r.st = "found" THEN {r.loc} ELSE {}

\* what the commands would touch through an approved path p, the filesystem
\* being the one that was validated: the entry read or listed, the entries
\* created or overwritten by a write, the entry removed by a delete
AfterDirs(dirs, p) ==
    IF dirs.ok THEN fs_write(dirs.fs, p, Text).fs ELSE dirs.fs

Written(p) ==
    AfterDirs(IF parent(p).some THEN create_dir_all(fs, parent(p).path) ELSE FsOk(fs), p)

Touched(p) ==
    FoundAt(Lookup(fs, p, TRUE))
    \cup Changed(fs, Written(p))
    \cup Changed(fs, remove_file(fs, p).fs)

-----------------------------------------------------------------------------
(* C1: whatever the filesystem holds (directories, files, live and         *)
(* dangling symbolic links), every location that a read, a write or a       *)
(* delete reaches through an approved path lies inside Root.                *)
C1_NoEscape ==
    (Validated /\ guardRet.ok) => \A loc \in Touched(guardRet.path) : Inside(loc)

(* C2 as claimed: an absolute path string that designates a location        *)
(* outside Root is rejected with the boundary-violation reason, and with    *)
(* no other reason.                                                         *)
C2_Original ==
    (Validated /\ is_absolute(guardArg) /\ ~Inside(Designated))
        => guardRet = Reject(ErrOutside)

(* C2 as amended: an absolute path string that designates a location        *)
(* outside Root is never approved; the reason is the boundary violation     *)
(* when its canonical ancestor is outside Root, and the traversal in the    *)
(* suffix when the canonical ancestor is inside Root.                       *)
C2_Amended ==
    (Validated /\ is_absolute(guardArg) /\ ~Inside(Designated))
        => guardRet = Reject(IF Inside(AncestorLoc) THEN ErrDotDot ELSE ErrOutside)

C2_Witness ==
    /\ Validated
    /\ is_absolute(guardArg)
    /\ ~Inside(Designated)
    /\ ~exists(fs, guardArg)
    /\ guardRet = Reject(ErrOutside)

(* C3 as claimed: a `..` in the non-existing suffix of the Resolved Path     *)
(* is rejected with the traversal-in-suffix reason.                         *)
C3_Original ==
    (Validated /\ DotDotInSuffix) => guardRet = Reject(ErrDotDot)

(* C3 as amended: a `..` in the non-existing suffix of the Resolved Path     *)
(* is rejected, with the traversal-in-suffix reason when the canonical      *)
(* ancestor is inside Root and with the boundary violation otherwise.       *)
C3_Amended ==
    (Validated /\ DotDotInSuffix)
        => /\ ~guardRet.ok
           /\ Inside(AncestorLoc) => guardRet.err = ErrDotDot
           /\ ~Inside(AncestorLoc) => guardRet.err = ErrOutside

C3_Witness ==
    /\ Validated
    /\ guardArg = <<N, PAR, PAR>>
    /\ <<W, N>> \notin DOMAIN fs
    /\ guardRet = Reject(ErrDotDot)

(* C4 as claimed: a path string that designates a location strictly inside  *)
(* Root is approved, with or without `..` segments.                         *)
C4_Original ==
    (Validated /\ StrictlyInside(Designated)) => guardRet.ok

(* C4 as amended: a path string that designates a location strictly inside  *)
(* Root and has no `..` in its non-existing suffix is approved.             *)
C4_Amended ==
    (Validated /\ StrictlyInside(Designated) /\ ~DotDotInSuffix) => guardRet.ok

C4_Witness ==
    /\ Validated
    /\ guardArg = <<A, PAR, N>>
    /\ KindAt(fs, <<W, A>>) = "dir"
    /\ <<W, N>> \notin DOMAIN fs
    /\ guardRet.ok

(* C7: the empty string and "." are approved; their Existing Ancestor is    *)
(* Root, their Suffix is empty and the approved path designates Root.       *)
C7_RootItself ==
    (Validated /\ guardArg \in {EmptyStr, <<CUR>>})
        => /\ guardRet.ok
           /\ components(Ancestor) = components(Root)
           /\ Suffix = <<>>
           /\ Lookup(fs, guardRet.path, TRUE) = Lookup(fs, cwd, TRUE)

C7_Witness ==
    /\ Validated
    /\ guardArg = EmptyStr
    /\ guardRet.ok

(* C8: with no symbolic link under Root, the join of plain names is         *)
(* approved and the approved path is Root followed by those names, the      *)
(* Resolved Path itself.                                                    *)
Plain == {A, N}

NoLinkInside ==
    \A loc \in DOMAIN fs : Inside(loc) => fs[loc].kind # "link"

C8_JoinThenValidate ==
    (/\ Validated
     /\ lastOp = "join_path"
     /\ NoLinkInside
     /\ \A i \in 1..Len(joinArg) : joinArg[i][1] \in Plain /\ Len(joinArg[i]) = 1)
        => /\ guardRet.ok
           /\ is_absolute(guardRet.path)
           /\ components(guardRet.path) = components(Root) \o [i \in 1..Len(joinArg) |-> joinArg[i][1]]
           /\ (joinArg # <<>> => guardRet.path = Root \o [i \in 1..Len(joinArg) |-> joinArg[i][1]])

C8_Witness ==
    /\ Validated
    /\ lastOp = "join_path"
    /\ NoLinkInside
    /\ joinArg = << <<A>>, <<N>>, <<A>> >>
    /\ guardRet = Approve(<<EMPTY, W, A, N, A>>)

(* C9: on approval the canonical ancestor has Root as a prefix, component   *)
(* by component, and the suffix holds no `..`.                              *)
C9_TwoPart ==
    (Validated /\ guardRet.ok)
        => /\ Inside(AncestorLoc)
           /\ ~DotDotInSuffix

C9_Witness ==
    /\ Validated
    /\ guardRet.ok
    /\ Suffix # <<>>
    /\ AncestorLoc # RootLoc

-----------------------------------------------------------------------------
(* The commands in sequence *)

GuardedOps == {"read_json", "write_json", "write_binary_file", "list_files", "delete_file"}

ReadOnlyOps == {"read_json", "list_files", "get_cwd", "join_path"}

GuardReasons == {ErrOutside, ErrDotDot, ErrInvalid, ErrPath, ErrIo}

\* the path strings whose verdict is followed from one command to the next:
\* "n/../a" and "../n", which the guard rejects at start, and "a/n"
Probes == {<<N, PAR, A>>, <<PAR, N>>, <<A, N>>}

(* C5: a guarded command whose path the guard rejects returns the guard's   *)
(* reason for that path and leaves the filesystem as it was: nothing is     *)
(* written, deleted or created before the guard has approved.               *)
C5_GuardFirst ==
    [][(lastOp' \in GuardedOps /\ lastVerdict' # "approved")
        => /\ fs' = fs
           /\ lastVerdict' \in GuardReasons
           /\ lastResult' = ErrVal(lastVerdict')]_vars

C5_Witness ==
    /\ lastOp = "write_json"
    /\ lastVerdict = ErrDotDot
    /\ lastResult = ErrVal(ErrDotDot)

(* C6 as claimed: a path string the guard rejects is rejected again, with   *)
(* the same reason, after whatever command comes in between.                *)
C6_Original ==
    [][\A c \in Probes :
            ~ensure_safe_path(fs, cwd, c).ok
                => ensure_safe_path(fs', cwd', c) = ensure_safe_path(fs, cwd, c)]_vars

(* C6 as amended: the verdict is a function of Root, the path string and    *)
(* the state of the filesystem; it is the same after a command that leaves  *)
(* the filesystem alone, that is read_json, list_files, get_cwd, join_path  *)
(* and any command the guard rejected.                                      *)
C6_Amended ==
    [][(lastOp' \in ReadOnlyOps \/ lastVerdict' \in GuardReasons)
        => \A c \in Probes :
                ensure_safe_path(fs', cwd', c) = ensure_safe_path(fs, cwd, c)]_vars

C6_Witness ==
    /\ lastOp = "read_json"
    /\ lastVerdict = "approved"
    /\ <<W, N>> \notin DOMAIN fs
    /\ ensure_safe_path(fs, cwd, <<N, PAR, A>>) = Reject(ErrDotDot)

(* C10: the boundary every guard invocation checks against is the Root      *)
(* established at start, whatever the host does in between, and get_cwd     *)
(* reports that Root.                                                       *)
C10_RootFixed ==
    /\ Root = StartDir
    /\ lastOp = "get_cwd" => lastResult = OkVal(StartDir)

====
